---- MODULE Spec2Model ----
(***************************************************************************)
(* A model of the Applio macOS wrapper (macos_wrapper.py) and of its build *)
(* script (build_macos.py).                                                *)
(*                                                                         *)
(* The wrapper is a set of threads over one ApplioApp object: the main     *)
(* thread (run), the loading HTTP server and its request handler, the log  *)
(* tailer, the backend launcher and the transition monitor.  The build     *)
(* script and PermissionsManager.ensure_microphone are sequential code and *)
(* have specifications of their own (SpecBuild, SpecMic).                  *)
(***************************************************************************)
EXTENDS Integers, Sequences, FiniteSets, TLC

VARIABLES
    alive,      \* the process has not called os._exit
    mainPc,     \* position of the main thread in run()
    window,     \* self.window: "None", or what the window shows
    micOk,      \* mic_granted in run(): "unset", "granted", "denied"
    spc,        \* loading-server thread
    status,     \* heading, sub_heading, technical_detail, progress, stage
    is_ready,   \* self.is_ready
    tpc,        \* log-tailer thread
    unread,     \* lines of the log file after the tailer's file offset
    budget,     \* environment events still followed (bounds the model)
    pending,    \* assignments of the matched branch not yet executed
    cur,        \* line: the line being classified (0: none, or empty)
    pre,        \* the status record when cur was classified
    bpc,        \* backend thread (start_backend)
    mpc,        \* monitor thread (monitor_transition / wait_for_backend)
    elapsed,    \* time.time() - start_time in wait_for_backend, in seconds
    probe,      \* start and arrival time of the probe answered with 200
    calls,      \* number of window.load_url / window.load_html calls
    hpc,        \* HTTP handler (do_GET)
    resp,       \* the response being built / last sent
    seen,       \* status snapshots held since the current request began
    audit,      \* whether seen is kept (an observer, not program state)
    mic,        \* one call of PermissionsManager.ensure_microphone
    build       \* the build script and the file system it works on

wrapperVars == <<alive, mainPc, window, micOk, spc, status, is_ready, tpc,
                 unread, budget, pending, cur, pre, bpc, mpc,
                 elapsed, probe, calls, hpc, resp, seen, audit>>
vars == <<wrapperVars, mic, build>>

---------------------------------------------------------------------------
(* Bounds of the model *)

\* Environment events are: a line written to the log by someone else, an
\* empty read of the tailer, an exception in the tailer's read loop, a GET
\* request.  Each specification follows a bounded number of them.
\* events followed in the specification of the whole wrapper
MaxEvents == 1
\* events followed in the specification of the tailer
MaxTailEvents == 2
\* events followed in the specification of the tailer and the handler
MaxHttpEvents == 2
\* wait_for_backend's timeout in seconds (300 in the source, scaled down)
PollTimeout == 2
\* invocations of the build script
MaxRuns == 2

---------------------------------------------------------------------------
(* Numbers of the program *)

\* progress is a float; the model keeps it in units of 1/Scale percent
Scale == 400
Full == 100 * Scale
CreepLimit == 95 * Scale
CreepDivisor == 2000
PrereqFloor == 10 * Scale
BootFloor == 80 * Scale
DetailMax == 60
DetailKeep == 57
PkgMax == 30
PkgKeep == 27
MinDetail == 8
ProbeTimeout == 1
SleepSeconds == 1

---------------------------------------------------------------------------
(* Text values.  A string is kept as its fixed part, the log line its      *)
(* variable part was taken from (0: none) and its length.                  *)

Lit(s) == [tag |-> s, src |-> 0, len |-> Len(s)]
Fmt(prefix, id, n) == [tag |-> prefix, src |-> id, len |-> Len(prefix) + n]

\* s[:keep] + "..." when len(s) > max
Truncated(n, max, keep) == IF n > max THEN keep + Len("...") ELSE n

---------------------------------------------------------------------------
(* Log lines.  A line is what the tailer's patterns can tell about it:     *)
(*   pats  the compiled patterns whose search() succeeds on it             *)
(*   val   int(group(1)) of p_dl_percent                                   *)
(*   len   len(line.strip())                                               *)
(*   cap   len of group(1) of the pattern that captures a name             *)
(*   base  len(os.path.basename(group(1)))                                 *)
(*   root  len of the stripped text after the first ":root:", -1 if none   *)
(*   its   "it/s]" in line                                                 *)

L(pats, val, len, cap, base, root, its) ==
    [pats |-> pats, val |-> val, len |-> len, cap |-> cap, base |-> base,
     root |-> root, its |-> its]

LogLines == <<
    L({"dl_percent"}, 40, 26, 0, 0, -1, FALSE),             \*  1 Downloading rmvpe.pt:  40%
    L({"dl_percent"}, 5, 25, 0, 0, -1, FALSE),              \*  2 Downloading rmvpe.pt:  5%
    L({"dl_percent", "dl_file"}, 96, 34, 15, 8, -1, FALSE), \*  3 Downloading models/rmvpe.pt... 96%
    L({"dl_percent"}, 250, 27, 0, 0, -1, FALSE),            \*  4 Downloading part 2 of 5 250%
    L({"dl_file"}, 0, 30, 15, 8, -1, FALSE),                \*  5 Downloading models/rmvpe.pt...
    L({"extract"}, 0, 29, 15, 15, -1, FALSE),               \*  6 Extracting pretraineds.zip...
    L({"pip_install"}, 0, 70, 40, 40, -1, FALSE),           \*  7 Installing collected packages: <40 chars>
    L({"prereq"}, 0, 40, 0, 0, -1, FALSE),                  \*  8 ... run_prerequisites_script ...
    L({"device"}, 0, 20, 3, 3, -1, FALSE),                  \*  9 Use mps acceleration
    L({"init_app"}, 0, 67, 0, 0, -1, FALSE),                \* 10 <time> [INFO] root: Initializing Gradio boot sequence...
    L({"load_model"}, 0, 20, 6, 6, -1, FALSE),              \* 11 Loading hubert model
    L({"server"}, 0, 43, 0, 0, -1, FALSE),                  \* 12 Running on local URL:  http://127.0.0.1:6969
    L({"responsive"}, 0, 60, 0, 0, -1, FALSE),              \* 13 <time> [INFO] root: Gradio backend is responsive.
    L({}, 0, 36, 0, 0, -1, FALSE),                          \* 14 Requirement already satisfied: numpy
    L({}, 0, 85, 0, 0, 75, FALSE),                          \* 15 INFO:root: <75 chars>
    L({}, 0, 2, 0, 0, -1, FALSE),                           \* 16 ok
    L({}, 0, 40, 0, 0, -1, TRUE),                           \* 17  45%|####      | 5/10 [00:01<00:01, 3.2it/s]
    L({}, 0, 0, 0, 0, -1, FALSE),                           \* 18 (white space only)
    L({"prereq", "init_app"}, 0, 70, 0, 0, -1, FALSE),      \* 19 run_prerequisites_script: Initializing Gradio boot sequence
    L({"extract", "server"}, 0, 50, 10, 10, -1, FALSE),     \* 20 Extracting x.zip... Running on local URL: ...
    L({"load_model", "responsive"}, 0, 52, 30, 30, -1, FALSE), \* 21 Loading Gradio backend is responsive model
    L({"device", "load_model"}, 0, 40, 3, 3, -1, FALSE),    \* 22 Use mps acceleration, Loading rvc model
    L({}, 0, 72, 0, 0, -1, FALSE)                           \* 23 <time> [ERROR] root: Backend launch failed: <e>
>>

LineIds == 1 .. Len(LogLines)
BootLine == 10
ResponsiveLine == 13
FailedLine == 23

\* lines the environment writes in the specification of the whole wrapper
CoreLines == {12, 14}
\* lines the environment writes in the specification of tailer and handler
HttpLines == {4, 7, 10, 12, 15}

---------------------------------------------------------------------------
(* The status record, ApplioApp.__init__ *)

InitStatus ==
    [heading |-> Lit("System Calibration"),
     sub_heading |-> Lit("Initializing environment..."),
     technical_detail |-> Lit("Allocating memory..."),
     progress |-> 0,
     stage |-> "1/4"]

W(f, v) == [f |-> f, v |-> v]

\* the anti-stall creep of one loop iteration
Creep(p, ready) ==
    IF ~ready /\ p < CreepLimit THEN p + ((Full - p) \div CreepDivisor) ELSE p

\* the if/elif chain: the branch taken for a (stripped, non-empty) line
BranchSwapped(l) ==
    IF "dl_file" \in l.pats THEN "dl_file"
    ELSE IF "dl_percent" \in l.pats THEN "dl_percent"
    ELSE IF "extract" \in l.pats THEN "extract"
    ELSE IF "pip_install" \in l.pats THEN "pip_install"
    ELSE IF "prereq" \in l.pats THEN "prereq"
    ELSE IF "device" \in l.pats THEN "device"
    ELSE IF "init_app" \in l.pats THEN "init_app"
    ELSE IF "load_model" \in l.pats THEN "load_model"
    ELSE IF "server" \in l.pats \/ "responsive" \in l.pats THEN "success"
    ELSE "fallback"

Branch(l) ==
    IF "dl_percent" \in l.pats THEN "dl_percent"
    ELSE IF "dl_file" \in l.pats THEN "dl_file"
    ELSE IF "extract" \in l.pats THEN "extract"
    ELSE IF "pip_install" \in l.pats THEN "pip_install"
    ELSE IF "prereq" \in l.pats THEN "prereq"
    ELSE IF "device" \in l.pats THEN "device"
    ELSE IF "init_app" \in l.pats THEN "init_app"
    ELSE IF "load_model" \in l.pats THEN "load_model"
    ELSE IF "server" \in l.pats \/ "responsive" \in l.pats THEN "success"
    ELSE "fallback"

\* the generic fallback's assignments
FallbackWrites(id, l, st) ==
    IF l.len > MinDetail /\ ~l.its
    THEN LET n == IF l.root >= 0 THEN l.root ELSE l.len
         IN  <<W("technical_detail",
                 [tag |-> "raw", src |-> id,
                  len |-> Truncated(n, DetailMax, DetailKeep)])>>
             \o (IF st.stage = "1/4"
                    /\ st.sub_heading = Lit("Initializing environment...")
                 THEN <<W("sub_heading", Lit("Configuring Runtime..."))>>
                 ELSE <<>>)
    ELSE <<>>

\* the assignments of the branch taken for line id, in program order
Writes(id, st) ==
    LET l == LogLines[id]
        b == Branch(l)
    IN  CASE b = "dl_percent" ->
               <<W("stage", "2/4"), W("heading", Lit("Synchronizing Assets"))>>
               \o (IF l.val * Scale > st.progress
                   THEN <<W("progress", l.val * Scale)>> ELSE <<>>)
          [] b = "dl_file" ->
               <<W("stage", "2/4"), W("heading", Lit("Synchronizing Assets")),
                 W("sub_heading", Fmt("Fetching ", id, l.base)),
                 W("technical_detail", Fmt("Network Request: ", id, l.cap))>>
          [] b = "extract" ->
               <<W("stage", "2/4"), W("heading", Lit("Decompressing Resources")),
                 W("sub_heading", Fmt("Unpacking ", id, l.base)),
                 W("technical_detail", Fmt("IO Operation: ", id, l.cap))>>
          [] b = "pip_install" ->
               <<W("stage", "2/4"), W("heading", Lit("Building Environment")),
                 W("sub_heading",
                   Fmt("Installing ", id, Truncated(l.cap, PkgMax, PkgKeep))),
                 W("technical_detail", [tag |-> "line", src |-> id, len |-> l.len])>>
          [] b = "prereq" ->
               <<W("stage", "1/4"), W("heading", Lit("System Validation")),
                 W("sub_heading", Lit("Checking Prerequisites..."))>>
               \o (IF st.progress < PrereqFloor
                   THEN <<W("progress", PrereqFloor)>> ELSE <<>>)
          [] b = "device" ->
               <<W("heading", Lit("Hardware Optimization")),
                 W("sub_heading", Fmt("Accelerating with ", id, l.cap)),
                 W("technical_detail", Fmt("Device allocation: ", id, l.cap))>>
          [] b = "init_app" ->
               <<W("stage", "3/4"), W("heading", Lit("Booting Inference Engine")),
                 W("sub_heading", Lit("Loading Neural Networks...")),
                 W("technical_detail", Lit("Initializing pytorch contexts..."))>>
               \o (IF st.progress < BootFloor
                   THEN <<W("progress", BootFloor)>> ELSE <<>>)
          [] b = "load_model" ->
               <<W("heading", Lit("Loading Models")),
                 W("sub_heading", Fmt("Hydrating ", id, l.cap + Len("..."))),
                 W("technical_detail", Fmt("Memory mapping ", id, l.cap))>>
          [] b = "success" ->
               <<W("stage", "4/4"), W("heading", Lit("Initialization Complete")),
                 W("sub_heading", Lit("Launching User Interface...")),
                 W("progress", Full), W("is_ready", TRUE)>>
          [] OTHER -> FallbackWrites(id, l, st)

---------------------------------------------------------------------------
(* PermissionsManager.ensure_microphone.  Its inputs are what the native   *)
(* bindings do: whether they were imported, the authorization status (or   *)
(* an exception reading it), whether the dummy session, the access request *)
(* and the sounddevice reset raise, and when the completion handler fires  *)
(* (in run-loop slices of half a second; 0: before the wait, -1: never)    *)
(* and with what.                                                          *)

MicWaitSeconds == 60
SlicesPerSecond == 2
WaitSlices == MicWaitSeconds * SlicesPerSecond

AvAuthorized == 3
AvDenied == 2
AvRestricted == 1
AvNotDetermined == 0

\* the run-loop wait: the number of the slice after which the loop exits
RECURSIVE SpinUntil(_, _)
SpinUntil(t, cbAt) ==
    IF ~(cbAt >= 0 /\ cbAt <= t) /\ t < WaitSlices
    THEN SpinUntil(t + 1, cbAt)
    ELSE t

AuthorizedLoose(st) == st >= AvDenied /\ st <= AvAuthorized

Authorized(st) == st = AvAuthorized

\* the value returned for inputs i
EnsureMicrophone(i) ==
    IF ~i.av \/ i.statusRaises THEN FALSE           \* except Exception
    ELSE IF Authorized(i.status) THEN TRUE
    ELSE IF i.status \in {AvRestricted, AvDenied} THEN FALSE
    ELSE IF i.status = AvNotDetermined
         THEN IF i.requestRaises THEN FALSE         \* except Exception
              ELSE LET t == SpinUntil(0, i.cbAt)
                       fired == i.cbAt >= 0 /\ i.cbAt <= t
                   IN  fired /\ i.granted
         ELSE FALSE

CallbackTimes == {-1, 0, 1, WaitSlices - 1, WaitSlices, WaitSlices + 1}

MicInputs ==
    [av : BOOLEAN, statusRaises : BOOLEAN, status : 0 .. 4,
     dummyRaises : BOOLEAN, requestRaises : BOOLEAN, cbAt : CallbackTimes,
     granted : BOOLEAN, resetRaises : BOOLEAN]

\* inputs under which the program runs in the wrapper specifications
MicQuiet ==
    [av |-> TRUE, statusRaises |-> FALSE, status |-> AvAuthorized,
     dummyRaises |-> FALSE, requestRaises |-> FALSE, cbAt |-> -1,
     granted |-> FALSE, resetRaises |-> FALSE]

MicIdle == [pc |-> "call", in |-> MicQuiet, result |-> FALSE]

MicCall ==
    /\ mic.pc = "call"
    /\ mic' = [mic EXCEPT !.pc = "returned", !.result = EnsureMicrophone(mic.in)]
    /\ UNCHANGED <<wrapperVars, build>>

---------------------------------------------------------------------------
(* The log file.  A line written while the tailer has no open file lies    *)
(* before the offset its next seek(0, SEEK_END) sets, so it is never read. *)

FileOpen == tpc \in {"read", "write"}

LogAppend(id) == IF FileOpen THEN Append(unread, id) ELSE unread

\* round(parent.progress, 1), in tenths of a percent
Round1(p) == (p * 10 + Scale \div 2) \div Scale

\* what a GET /api/status reports of a status record
Snapshot(st) ==
    [heading |-> st.heading, sub_heading |-> st.sub_heading,
     progress |-> Round1(st.progress), stage |-> st.stage,
     detail |-> st.technical_detail]

\* the status records a request in flight has lived through
Seen(st) == IF hpc = "idle" \/ ~audit THEN seen ELSE seen \cup {Snapshot(st)}

---------------------------------------------------------------------------
(* The log tailer, tail_logs *)

tailVars == <<tpc, unread, pending, cur, pre>>
lifeVars == <<alive, mainPc, window, micOk, spc, bpc, mpc, elapsed, probe,
              calls, audit>>
httpVars == <<hpc, resp>>

\* open(self.log_file) and f.seek(0, os.SEEK_END)
TailOpen ==
    /\ alive /\ tpc = "open"
    /\ tpc' = "read"
    /\ unread' = <<>>
    /\ UNCHANGED <<status, is_ready, budget, pending, cur, pre,
                   lifeVars, httpVars, seen, mic, build>>

\* readline() returns nothing: creep, sleep, continue
TailIdle ==
    /\ alive /\ tpc = "read" /\ unread = <<>>
    /\ budget > 0
    /\ budget' = budget - 1
    /\ status' = [status EXCEPT !.progress = Creep(status.progress, is_ready)]
    /\ seen' = Seen(status')
    /\ cur' = 0
    /\ UNCHANGED <<is_ready, tpc, unread, pending, pre,
                   lifeVars, httpVars, mic, build>>

\* readline() returns a line: creep, strip, classify
TailLine ==
    /\ alive /\ tpc = "read" /\ unread # <<>>
    /\ LET id == Head(unread)
           st == [status EXCEPT !.progress = Creep(status.progress, is_ready)]
       IN  /\ unread' = Tail(unread)
           /\ status' = st
           /\ seen' = Seen(st)
           /\ IF LogLines[id].len = 0
              THEN cur' = 0 /\ UNCHANGED <<tpc, pending, pre>>
              ELSE /\ cur' = id
                   /\ pre' = st
                   /\ pending' = Writes(id, st)
                   /\ tpc' = IF pending' = <<>> THEN "read" ELSE "write"
    /\ UNCHANGED <<is_ready, budget, lifeVars, httpVars, mic,
                   build>>

\* one assignment of the matched branch, the success branch not returning
TailWriteGoesOn ==
    /\ alive /\ tpc = "write"
    /\ LET w == Head(pending)
       IN  /\ pending' = Tail(pending)
           /\ tpc' = IF Tail(pending) = <<>> THEN "read" ELSE "write"
           /\ IF w.f = "is_ready"
              THEN is_ready' = w.v /\ UNCHANGED <<status, seen>>
              ELSE /\ status' = [status EXCEPT ![w.f] = w.v]
                   /\ seen' = Seen(status')
                   /\ UNCHANGED is_ready
    /\ UNCHANGED <<budget, unread, cur, pre, lifeVars, httpVars,
                   mic, build>>

\* one assignment of the matched branch; the success branch returns
TailWrite ==
    /\ alive /\ tpc = "write"
    /\ LET w == Head(pending)
       IN  /\ pending' = Tail(pending)
           /\ IF w.f = "is_ready"
              THEN /\ is_ready' = w.v
                   /\ tpc' = "done"
                   /\ UNCHANGED <<status, seen>>
              ELSE /\ status' = [status EXCEPT ![w.f] = w.v]
                   /\ seen' = Seen(status')
                   /\ tpc' = IF Tail(pending) = <<>> THEN "read" ELSE "write"
                   /\ UNCHANGED is_ready
    /\ UNCHANGED <<budget, unread, cur, pre, lifeVars, httpVars,
                   mic, build>>

\* an exception in the read loop: logged, sleep(1), the file is opened again
TailError ==
    /\ alive /\ tpc = "read"
    /\ budget > 0
    /\ budget' = budget - 1
    /\ tpc' = "open"
    /\ UNCHANGED <<status, is_ready, unread, pending, cur, pre,
                   lifeVars, httpVars, seen, mic, build>>

\* another writer of the log file (the backend's output, other loggers)
EnvWrite(lines) ==
    /\ alive /\ budget > 0
    /\ budget' = budget - 1
    /\ \E id \in lines : unread' = LogAppend(id)
    /\ UNCHANGED <<status, is_ready, tpc, pending, cur, pre,
                   lifeVars, httpVars, seen, mic, build>>

EnvWriteCore == EnvWrite(CoreLines)
EnvWriteAny == EnvWrite(LineIds)
EnvWriteSome == EnvWrite(HttpLines)

---------------------------------------------------------------------------
(* The loading server and LoadingHandler.do_GET *)

ServerBind ==
    /\ alive /\ spc = "binding"
    /\ spc' \in {"serving", "failed"}
    /\ UNCHANGED <<audit, alive, mainPc, window, micOk, status, is_ready, tailVars,
                   budget, bpc, mpc, elapsed, probe, calls, httpVars, seen,
                   mic, build>>

StatusFieldsShort == <<"heading", "sub_heading", "progress", "stage">>

\* the keys of data, in the order their values are read
StatusFields == <<"heading", "sub_heading", "progress", "stage", "detail">>

\* GET /api/status: send_response(200) and the headers
HttpGetStatus ==
    /\ alive /\ spc = "serving" /\ hpc = "idle"
    /\ budget > 0
    /\ budget' = budget - 1
    /\ hpc' = "read"
    /\ resp' = [code |-> 200, kind |-> "json", body |-> <<>>]
    /\ seen' = IF audit THEN {Snapshot(status)} ELSE {}
    /\ UNCHANGED <<status, is_ready, tailVars, lifeVars, mic, build>>

\* one field of data is read from the parent; after the last, the body is sent
HttpRead ==
    /\ alive /\ hpc = "read"
    /\ LET n == Cardinality(DOMAIN resp.body) + 1
           f == StatusFields[n]
       IN  /\ resp' = [resp EXCEPT !.body = @ @@ (f :> Snapshot(status)[f])]
           /\ hpc' = IF n = Len(StatusFields) THEN "idle" ELSE "read"
    /\ UNCHANGED <<status, is_ready, tailVars, budget, lifeVars, seen, mic,
                   build>>

\* any other path: the loading page (or the fallback page)
HttpGetPage ==
    /\ alive /\ spc = "serving" /\ hpc = "idle"
    /\ budget > 0
    /\ budget' = budget - 1
    /\ resp' = [code |-> 200, kind |-> "html", body |-> <<>>]
    /\ seen' = {}
    /\ UNCHANGED <<status, is_ready, tailVars, lifeVars, hpc, mic,
                   build>>

---------------------------------------------------------------------------
(* The main thread, ApplioApp.run *)

RunStepsEarlyBackend ==
    <<"start_server", "start_tailer", "start_backend", "start_monitor",
      "create_window", "mic", "dialog", "gui">>

\* the statements of run(), in program order
RunSteps ==
    <<"start_server", "start_tailer", "create_window", "mic", "dialog",
      "start_backend", "start_monitor", "gui">>

StepAfter(pc) ==
    LET i == CHOOSE k \in 1 .. Len(RunSteps) : RunSteps[k] = pc
    IN  RunSteps[i + 1]

otherThanMain == <<status, is_ready, tailVars, budget, httpVars, seen, mic,
                   build, elapsed, probe, calls, audit>>

StartLoadingServer ==
    /\ alive /\ mainPc = "start_server"
    /\ mainPc' = StepAfter(mainPc)
    /\ spc' = "binding"
    /\ UNCHANGED <<alive, window, micOk, bpc, mpc, otherThanMain>>

StartTailer ==
    /\ alive /\ mainPc = "start_tailer"
    /\ mainPc' = StepAfter(mainPc)
    /\ tpc' = "open"
    /\ UNCHANGED <<alive, window, micOk, spc, bpc, mpc, status, is_ready,
                   unread, pending, cur, pre, budget, httpVars,
                   seen, mic, build, elapsed, probe, calls, audit>>

CreateWindow ==
    /\ alive /\ mainPc = "create_window"
    /\ mainPc' = StepAfter(mainPc)
    /\ window' = "loading"
    /\ UNCHANGED <<alive, micOk, spc, bpc, mpc, otherThanMain>>

\* mic_granted = self.trigger_mic_permission()
TriggerMicPermission ==
    /\ alive /\ mainPc = "mic"
    /\ \E i \in MicInputs :
          micOk' = IF EnsureMicrophone(i) THEN "granted" ELSE "denied"
    /\ mainPc' = IF micOk' = "granted" THEN StepAfter("dialog") ELSE "dialog"
    /\ UNCHANGED <<alive, window, spc, bpc, mpc, otherThanMain>>

\* show_permission_denied_dialog returns (dismissed, or it could not be shown)
DismissDialog ==
    /\ alive /\ mainPc = "dialog"
    /\ mainPc' = StepAfter(mainPc)
    /\ micOk' = "acknowledged"
    /\ UNCHANGED <<alive, window, spc, bpc, mpc, otherThanMain>>

StartBackendThread ==
    /\ alive /\ mainPc = "start_backend"
    /\ mainPc' = StepAfter(mainPc)
    /\ bpc' = "import"
    /\ UNCHANGED <<alive, window, micOk, spc, mpc, otherThanMain>>

\* the monitor thread starts; wait_for_backend takes start_time
StartMonitorThread ==
    /\ alive /\ mainPc = "start_monitor"
    /\ mainPc' = StepAfter(mainPc)
    /\ mpc' = "check"
    /\ elapsed' = 0
    /\ UNCHANGED <<alive, window, micOk, spc, bpc, status, is_ready, tailVars,
                   budget, httpVars, seen, mic, build, probe, calls,
                   audit>>

\* the window is closed (or Quit is chosen) in the GUI loop: os._exit(0).
\* Every thread ends with the process and the object is gone; what the
\* window was told to show is kept.
WindowClosed ==
    /\ alive /\ mainPc = "gui"
    /\ alive' = FALSE
    /\ mainPc' = "exited" /\ spc' = "exited" /\ tpc' = "exited"
    /\ bpc' = "exited" /\ mpc' = "exited" /\ hpc' = "exited"
    /\ status' = InitStatus /\ is_ready' = FALSE /\ unread' = <<>>
    /\ pending' = <<>> /\ cur' = 0 /\ pre' = InitStatus /\ budget' = 0
    /\ seen' = {}
    /\ resp' = [code |-> 0, kind |-> "none", body |-> <<>>]
    /\ UNCHANGED <<window, micOk, elapsed, probe, calls, mic, build, audit>>

---------------------------------------------------------------------------
(* The backend thread, start_backend *)

otherThanBackend == <<alive, mainPc, window, micOk, spc, mpc, elapsed, probe,
                      calls, status, is_ready, budget, httpVars, seen, mic,
                      build, audit>>

\* what an exception of the import or of launch_gradio does to the process
RaisedExits == FALSE

Raised == TRUE

\* from app import launch_gradio raises: logged, the thread ends
BackendImportFails ==
    /\ alive /\ bpc = "import"
    /\ bpc' = "failed"
    /\ alive' = Raised
    /\ unread' = LogAppend(FailedLine)
    /\ UNCHANGED <<mainPc, window, micOk, spc, mpc, elapsed, probe, calls,
                   status, is_ready, budget, tpc, pending, cur, pre, httpVars,
                   seen, mic, build, audit>>

\* the import succeeds: "Initializing Gradio boot sequence..." is logged
BackendImported ==
    /\ alive /\ bpc = "import"
    /\ bpc' = "launch"
    /\ unread' = LogAppend(BootLine)
    /\ UNCHANGED <<otherThanBackend, tpc, pending, cur, pre>>

\* launch_gradio raises: logged, the thread ends
BackendLaunchFails ==
    /\ alive /\ bpc = "launch"
    /\ bpc' = "failed"
    /\ alive' = Raised
    /\ unread' = LogAppend(FailedLine)
    /\ UNCHANGED <<mainPc, window, micOk, spc, mpc, elapsed, probe, calls,
                   status, is_ready, budget, tpc, pending, cur, pre, httpVars,
                   seen, mic, build, audit>>

\* launch_gradio is serving on server_port
BackendServes ==
    /\ alive /\ bpc = "launch"
    /\ bpc' = "serving"
    /\ UNCHANGED <<otherThanBackend, tailVars>>

---------------------------------------------------------------------------
(* The monitor thread, monitor_transition and wait_for_backend *)

otherThanMonitor == <<alive, mainPc, micOk, spc, bpc, status, budget,
                      httpVars, seen, mic, build, audit>>

NoProbe == [start |-> -1, at |-> -1]

\* while time.time() - start_time < timeout
MonitorCheck ==
    /\ alive /\ mpc = "check"
    /\ mpc' = IF elapsed < PollTimeout THEN "probe" ELSE "timeout"
    /\ UNCHANGED <<otherThanMonitor, window, is_ready, tailVars, elapsed,
                   probe, calls>>

\* urlopen answers with status 200 after d seconds
ProbeOk ==
    /\ alive /\ mpc = "probe" /\ bpc = "serving"
    /\ \E d \in 0 .. ProbeTimeout :
          /\ elapsed' = elapsed + d
          /\ probe' = [start |-> elapsed, at |-> elapsed + d]
    /\ mpc' = "log200"
    /\ UNCHANGED <<otherThanMonitor, window, is_ready, tailVars, calls>>

\* urlopen answers with another status without raising: next iteration
ProbeOther ==
    /\ alive /\ mpc = "probe" /\ bpc = "serving"
    /\ \E d \in 0 .. ProbeTimeout : elapsed' = elapsed + d
    /\ mpc' = "check"
    /\ UNCHANGED <<otherThanMonitor, window, is_ready, tailVars, probe, calls>>

\* urlopen raises (refused, timed out, HTTP error): except, then sleep
ProbeFails ==
    /\ alive /\ mpc = "probe"
    /\ \E d \in 0 .. ProbeTimeout : elapsed' = elapsed + d
    /\ mpc' = "sleep"
    /\ UNCHANGED <<otherThanMonitor, window, is_ready, tailVars, probe, calls>>

\* time.sleep(1)
MonitorSleep ==
    /\ alive /\ mpc = "sleep"
    /\ elapsed' = elapsed + SleepSeconds
    /\ mpc' = "check"
    /\ UNCHANGED <<otherThanMonitor, window, is_ready, tailVars, probe, calls>>

\* logging.info("Gradio backend is responsive.")
MonitorLogs ==
    /\ alive /\ mpc = "log200"
    /\ unread' = LogAppend(ResponsiveLine)
    /\ mpc' = "setready"
    /\ UNCHANGED <<otherThanMonitor, window, is_ready, tpc, 
                   pending, cur, pre, elapsed, probe, calls>>

\* self.is_ready = True and the progress bar filled as well
MonitorSetsReadyAndFull ==
    /\ alive /\ mpc = "setready"
    /\ is_ready' = TRUE
    /\ status' = [status EXCEPT !.progress = Full]
    /\ mpc' = "settle"
    /\ UNCHANGED <<alive, mainPc, micOk, spc, bpc, budget, httpVars, seen,
                   mic, build, audit, window, tailVars, elapsed, probe, calls>>

\* self.is_ready = True; return True
MonitorSetsReady ==
    /\ alive /\ mpc = "setready"
    /\ is_ready' = TRUE
    /\ mpc' = "settle"
    /\ UNCHANGED <<otherThanMonitor, window, tailVars, elapsed, probe, calls>>

\* the true branch of monitor_transition, then the false branch as well
ShowMainThenError ==
    /\ alive /\ mpc = "settle"
    /\ mpc' = "done"
    /\ IF window # "None"
       THEN /\ window' = "error"
            /\ calls' = [url |-> calls.url + 1, html |-> calls.html + 1]
       ELSE UNCHANGED <<window, calls>>
    /\ UNCHANGED <<otherThanMonitor, is_ready, tailVars, elapsed, probe>>

\* wait_for_backend returned True: sleep(1.5), window.load_url(server)
ShowMain ==
    /\ alive /\ mpc = "settle"
    /\ mpc' = "done"
    /\ IF window # "None"
       THEN /\ window' = "main"
            /\ calls' = [calls EXCEPT !.url = @ + 1]
       ELSE UNCHANGED <<window, calls>>
    /\ UNCHANGED <<otherThanMonitor, is_ready, tailVars, elapsed, probe>>

\* wait_for_backend returned False: window.load_html(error page)
ShowError ==
    /\ alive /\ mpc = "timeout"
    /\ mpc' = "done"
    /\ IF window # "None"
       THEN /\ window' = "error"
            /\ calls' = [calls EXCEPT !.html = @ + 1]
       ELSE UNCHANGED <<window, calls>>
    /\ UNCHANGED <<otherThanMonitor, is_ready, tailVars, elapsed, probe>>

---------------------------------------------------------------------------
(* The wrapper *)

\* ApplioApp.__init__, no thread started
WrapperInit ==
    /\ alive = TRUE
    /\ mainPc = RunSteps[1]
    /\ window = "None"
    /\ micOk = "unset"
    /\ spc = "idle"
    /\ status = InitStatus
    /\ is_ready = FALSE
    /\ tpc = "idle"
    /\ unread = <<>>
    /\ budget = MaxEvents
    /\ pending = <<>>
    /\ cur = 0
    /\ pre = InitStatus
    /\ bpc = "idle"
    /\ mpc = "idle"
    /\ elapsed = 0
    /\ probe = NoProbe
    /\ calls = [url |-> 0, html |-> 0]
    /\ hpc = "idle"
    /\ resp = [code |-> 0, kind |-> "none", body |-> <<>>]
    /\ seen = {}
    /\ audit = FALSE

Init == WrapperInit /\ mic = MicIdle /\ build = <<>>

Tailer == TailOpen \/ TailIdle \/ TailLine \/ TailWrite \/ TailError
Handler == HttpGetStatus \/ HttpRead \/ HttpGetPage
Main ==
    \/ StartLoadingServer \/ StartTailer \/ CreateWindow
    \/ TriggerMicPermission \/ DismissDialog \/ StartBackendThread
    \/ StartMonitorThread \/ WindowClosed
Backend ==
    BackendImportFails \/ BackendImported \/ BackendLaunchFails \/ BackendServes
Monitor ==
    \/ MonitorCheck \/ ProbeOk \/ ProbeOther \/ ProbeFails \/ MonitorSleep
    \/ MonitorLogs \/ MonitorSetsReady \/ ShowMain \/ ShowError

Next ==
    \/ StartLoadingServer \/ StartTailer \/ CreateWindow
    \/ TriggerMicPermission \/ DismissDialog \/ StartBackendThread
    \/ StartMonitorThread \/ WindowClosed
    \/ ServerBind \/ HttpGetStatus \/ HttpRead \/ HttpGetPage
    \/ TailOpen \/ TailIdle \/ TailLine \/ TailWrite \/ TailError
    \/ EnvWriteCore
    \/ BackendImportFails \/ BackendImported \/ BackendLaunchFails
    \/ BackendServes
    \/ MonitorCheck \/ ProbeOk \/ ProbeOther \/ ProbeFails \/ MonitorSleep
    \/ MonitorLogs \/ MonitorSetsReady \/ ShowMain \/ ShowError

Spec == Init /\ [][Next]_vars

-------------------------------------------------------------------------------------------------------------------------------------------------
(* The tailer on arbitrary log lines (SpecTail), and the tailer with the   *)
(* request handler (SpecHttp).  Both start where the loading server is     *)
(* serving, the tailer thread has been started, the window shows the       *)
(* loading page, the backend is serving and wait_for_backend has just      *)
(* received its 200.                                                       *)

InitLate(events, observed) ==
    /\ alive = TRUE
    /\ mainPc = "gui"
    /\ window = "loading"
    /\ micOk = "granted"
    /\ spc = "serving"
    /\ status = InitStatus
    /\ is_ready = FALSE
    /\ tpc = "open"
    /\ unread = <<>>
    /\ budget = events
    /\ pending = <<>>
    /\ cur = 0
    /\ pre = InitStatus
    /\ bpc = "serving"
    /\ mpc = "log200"
    /\ elapsed = 0
    /\ probe = [start |-> 0, at |-> 0]
    /\ calls = [url |-> 0, html |-> 0]
    /\ hpc = "idle"
    /\ resp = [code |-> 0, kind |-> "none", body |-> <<>>]
    /\ seen = {}
    /\ audit = observed
    /\ mic = MicIdle
    /\ build = <<>>

InitTail == InitLate(MaxTailEvents, FALSE)

NextTail ==
    \/ TailOpen \/ TailIdle \/ TailLine \/ TailWrite \/ TailError
    \/ EnvWriteAny
    \/ MonitorLogs \/ MonitorSetsReady

SpecTail == InitTail /\ [][NextTail]_vars

InitHttp == InitLate(MaxHttpEvents, TRUE)

NextHttp ==
    \/ TailOpen \/ TailIdle \/ TailLine \/ TailWrite \/ TailError
    \/ EnvWriteSome
    \/ HttpGetStatus \/ HttpRead \/ HttpGetPage
    \/ MonitorLogs \/ MonitorSetsReady

SpecHttp == InitHttp /\ [][NextHttp]_vars

---------------------------------------------------------------------------
(* One call of ensure_microphone on every combination of its inputs *)

InitMic ==
    /\ WrapperInit
    /\ mic \in [pc : {"call"}, in : MicInputs, result : {FALSE}]
    /\ build = <<>>

SpecMic == InitMic /\ [][MicCall]_vars

---------------------------------------------------------------------------
(* The build script, build_macos.py, run MaxRuns times in succession on    *)
(* the same working directory.  Of the bundle only Info.plist's two        *)
(* version keys are kept ("" for a key that is not set).                   *)

CleanAttempts == 3
BrandVersion == "3.6.0"

NoPlist == [present |-> FALSE, short |-> "", version |-> ""]
\* the Info.plist PyInstaller writes: a default short version, no build version
FreshPlist == [present |-> TRUE, short |-> "0.0.0", version |-> ""]

\* plist['CFBundleShortVersionString'] = ...; plist['CFBundleVersion'] = ...
Patched(pl) == [pl EXCEPT !.short = BrandVersion, !.version = BrandVersion]

Declared(b) ==
    IF b.plist.present THEN <<b.plist.short, b.plist.version>>
    ELSE <<"no bundle", "no bundle">>

\* the script ends (its last statement, or an exception ended it)
Ended(b) == [b EXCEPT !.pc = "end", !.declared = Append(@, Declared(b))]

Exists(b, dir) == IF dir = "dist" THEN b.dist ELSE b.work

\* clean_dir returns: the next statement of the script
Returned(b) ==
    IF b.target = "dist"
    THEN [b EXCEPT !.target = "build", !.pc = "enter",
                   !.stale = b.dist]
    ELSE [b EXCEPT !.pc = "package"]

Removed(b) ==
    IF b.target = "dist"
    THEN [b EXCEPT !.dist = FALSE, !.plist = NoPlist]
    ELSE [b EXCEPT !.work = FALSE]

\* if os.path.exists(path): ... for i in range(3)
CleanEnter ==
    /\ build.pc = "enter"
    /\ build' = IF Exists(build, build.target)
                THEN [build EXCEPT !.pc = "rmtree", !.i = 0, !.tries = 0,
                                   !.sleeps = 0, !.forced = 0]
                ELSE Returned([build EXCEPT !.tries = 0, !.sleeps = 0,
                                            !.forced = 0])
    /\ UNCHANGED <<wrapperVars, mic>>

\* shutil.rmtree(path) succeeds: return
RmtreeOk ==
    /\ build.pc = "rmtree"
    /\ build' = Returned(Removed([build EXCEPT !.tries = @ + 1]))
    /\ UNCHANGED <<wrapperVars, mic>>

\* shutil.rmtree(path) raises, having removed some of the tree or none
RmtreeFails ==
    /\ build.pc = "rmtree"
    /\ \E lost \in BOOLEAN :
          build' = [build EXCEPT
                      !.tries = @ + 1, !.pc = "sleep",
                      !.plist = IF lost /\ build.target = "dist"
                                THEN NoPlist ELSE @]
    /\ UNCHANGED <<wrapperVars, mic>>

\* time.sleep(1), the loop running for one index more
CleanSleepOnePast ==
    /\ build.pc = "sleep"
    /\ build' = [build EXCEPT
                    !.sleeps = @ + 1, !.i = @ + 1,
                    !.pc = IF build.i + 1 <= CleanAttempts
                           THEN "rmtree" ELSE "rmrf"]
    /\ UNCHANGED <<wrapperVars, mic>>

\* time.sleep(1), then the next attempt or the end of the loop
CleanSleep ==
    /\ build.pc = "sleep"
    /\ build' = [build EXCEPT
                    !.sleeps = @ + 1, !.i = @ + 1,
                    !.pc = IF build.i + 1 < CleanAttempts
                           THEN "rmtree" ELSE "rmrf"]
    /\ UNCHANGED <<wrapperVars, mic>>

\* os.system("rm -rf ..."): its exit status is not looked at
ForceRemove ==
    /\ build.pc = "rmrf"
    /\ \E ok \in BOOLEAN :
          build' = Returned(IF ok
                            THEN Removed([build EXCEPT !.forced = @ + 1])
                            ELSE [build EXCEPT !.forced = @ + 1])
    /\ UNCHANGED <<wrapperVars, mic>>

\* PyInstaller without --noconfirm: it does not replace an existing bundle
\* but ends the script
PackagedAsking(b) ==
    IF b.dist /\ b.plist.present
    THEN Ended(b)
    ELSE [b EXCEPT !.pc = "patch", !.dist = TRUE, !.work = TRUE,
                   !.plist = FreshPlist, !.signed = FALSE]

\* PyInstaller.__main__.run(args), args holding --noconfirm and --clean:
\* build/ and dist/Applio.app are written anew
Packaged(b) ==
    [b EXCEPT !.pc = "patch", !.dist = TRUE, !.work = TRUE,
              !.plist = FreshPlist, !.signed = FALSE]

RunPackager ==
    /\ build.pc = "package"
    /\ build' = Packaged(build)
    /\ UNCHANGED <<wrapperVars, mic>>

\* the Info.plist post-processing and the signing, to the last print
PatchPlist ==
    /\ build.pc = "patch"
    /\ build' = IF build.plist.present
                THEN Ended([build EXCEPT !.plist = Patched(@),
                                         !.signed = build.entitlements])
                ELSE Ended(build)
    /\ UNCHANGED <<wrapperVars, mic>>

\* the script is run again
RunAgain ==
    /\ build.pc = "end"
    /\ build.run < MaxRuns
    /\ build' = [build EXCEPT !.run = @ + 1, !.pc = "enter",
                              !.target = "dist", !.stale = FALSE]
    /\ UNCHANGED <<wrapperVars, mic>>

\* the working directory before the first run: no dist/, a bundle a
\* packager run left unpatched, or a bundle of an earlier build
InitBuild ==
    /\ WrapperInit
    /\ mic = MicIdle
    /\ \E d \in {NoPlist, FreshPlist, Patched(FreshPlist)},
          w \in BOOLEAN, e \in BOOLEAN, partial \in BOOLEAN :
          build = [run |-> 1, pc |-> "enter", target |-> "dist", i |-> 0,
                   tries |-> 0, sleeps |-> 0, forced |-> 0,
                   dist |-> d.present \/ partial, work |-> w, plist |-> d,
                   entitlements |-> e, signed |-> FALSE, stale |-> FALSE,
                   declared |-> <<>>]

NextBuild ==
    \/ CleanEnter \/ RmtreeOk \/ RmtreeFails \/ CleanSleep \/ ForceRemove
    \/ RunPackager \/ PatchPlist \/ RunAgain

SpecBuild == InitBuild /\ [][NextBuild]_vars

---------------------------------------------------------------------------
(* The wrapper under the scheduling of its threads: a started monitor      *)
(* thread keeps running while the process lives.                           *)

SpecLive == Spec /\ WF_vars(StartMonitorThread) /\ WF_vars(Monitor)

---------------------------------------------------------------------------
(* Properties *)

IsText(t) == DOMAIN t = {"tag", "src", "len"} /\ t.len \in Nat
Stages == {"1/4", "2/4", "3/4", "4/4"}
Answered == hpc = "idle" /\ resp.kind = "json"

\* C1: every answer to GET /api/status carries status 200 and a JSON object
\* with the heading text, a numeric progress, the stage string and the
\* detail string, in whatever state the tailer is.
C1_StatusWellFormed ==
    /\ resp.kind = "json" => resp.code = 200
    /\ Answered =>
          /\ {"heading", "progress", "stage", "detail"} \subseteq DOMAIN resp.body
          /\ IsText(resp.body.heading)
          /\ resp.body.progress \in Nat
          /\ resp.body.stage \in Stages
          /\ IsText(resp.body.detail)

\* a request was answered while the tailer was in the middle of a branch,
\* the status record having changed while the request was served
C1_Witness == Answered /\ tpc = "write" /\ Cardinality(seen) > 1

\* C2 (as claimed): while is_ready is false no step stores a progress value
\* lower than the one it replaces.
C2_ProgressNeverLowered ==
    [][~is_ready => status'.progress >= status.progress]_vars

Within(t) == t >= 0 /\ t < PollTimeout
OnceAtMost == calls.url + calls.html <= 1

\* C3 (as claimed): load_url is called iff a probe returned 200 within the
\* timeout, otherwise load_html is called, and never both nor twice.
C3_TransitionIffProbeInTime ==
    /\ OnceAtMost
    /\ calls.url = 1 => Within(probe.at)
    /\ mpc = "done" => /\ Within(probe.at) => calls.url = 1
                       /\ calls.url = 0 => calls.html = 1

\* C3 (amended): load_url is called iff a probe that wait_for_backend began
\* before the timeout had elapsed returned 200, the answer arriving at most
\* the probe's own timeout later; otherwise load_html is called once, when
\* the timeout has elapsed; never both and neither twice.
C3_TransitionIffProbeBegunInTime ==
    /\ OnceAtMost
    /\ calls.url = 1 => /\ Within(probe.start)
                        /\ probe.at <= probe.start + ProbeTimeout
    /\ calls.html = 1 => probe = NoProbe /\ elapsed >= PollTimeout
    /\ mpc = "done" => /\ probe # NoProbe => calls.url = 1
                       /\ probe = NoProbe => calls.html = 1

\* the window was redirected on a 200 that arrived when the timeout had
\* already elapsed
C3_Witness == mpc = "done" /\ calls.url = 1 /\ probe.at >= PollTimeout

C5_TailerSoleWriter ==
    [][(status' # status /\ alive') =>
          /\ tpc \in {"read", "write"}
          /\ UNCHANGED <<mainPc, window, micOk, spc, bpc, mpc, elapsed, probe,
                         calls, hpc, resp>>]_vars

\* every other thread has run, a request has been answered, and the record
\* is no longer the constructed one
C5_Witness ==
    /\ mpc = "done" /\ bpc = "serving" /\ mainPc = "gui" /\ Answered
    /\ status # InitStatus

\* C6 (as claimed): what an answer reports is what the status record held
\* at one instant while the request was served.
C6_ResponseIsSnapshot == Answered => resp.body \in seen

BackendFailed == bpc = "failed"

MicRaises(i) ==
    ~i.av \/ i.statusRaises \/ (i.status = AvNotDetermined /\ i.requestRaises)
MicFiredInTime(i) == i.cbAt \in 0 .. WaitSlices

\* C8: ensure_microphone returns True exactly when nothing raised and the
\* status is authorized, or is not-determined and the completion handler
\* fired with granted before the wait ended; False in every other case.
C8_MicrophoneResult ==
    mic.pc = "returned" =>
        mic.result =
            (/\ ~MicRaises(mic.in)
             /\ \/ mic.in.status = AvAuthorized
                \/ /\ mic.in.status = AvNotDetermined
                   /\ MicFiredInTime(mic.in) /\ mic.in.granted)

\* access granted by a handler that fired in the last slice of the wait
C8_Witness ==
    /\ mic.pc = "returned" /\ mic.result
    /\ mic.in.status = AvNotDetermined /\ mic.in.cbAt = WaitSlices

\* C9: the backend and monitor threads exist only once the window exists
\* and the permission check has returned (a denial having been
\* acknowledged); the window exists only once the loading server and the
\* tailer have been started; the monitor never finds window = None.
C9_StartOrder ==
    /\ (bpc # "idle" \/ mpc # "idle") =>
          window # "None" /\ micOk \in {"granted", "acknowledged"}
    /\ window # "None" => spc # "idle" /\ tpc # "idle"
    /\ mainPc = "create_window" => spc # "idle" /\ tpc # "idle"

\* after a denial was acknowledged the monitor is at a test of self.window
C9_Witness ==
    /\ micOk = "acknowledged" /\ mpc \in {"settle", "timeout"}
    /\ window = "loading"

Order ==
    <<"dl_percent", "dl_file", "extract", "pip_install", "prereq", "device",
      "init_app", "load_model", "success">>
Matches(l, name) ==
    IF name = "success" THEN l.pats \cap {"server", "responsive"} # {}
    ELSE name \in l.pats
Earliest(l) ==
    LET hits == {k \in 1 .. Len(Order) : Matches(l, Order[k])}
    IN  IF hits = {} THEN "fallback"
        ELSE Order[CHOOSE k \in hits : \A h \in hits : k <= h]
Touched(b) ==
    CASE b = "dl_percent" -> {"stage", "heading", "progress"}
      [] b \in {"dl_file", "extract", "pip_install"} ->
            {"stage", "heading", "sub_heading", "technical_detail"}
      [] b = "prereq" -> {"stage", "heading", "sub_heading", "progress"}
      [] b \in {"device", "load_model"} ->
            {"heading", "sub_heading", "technical_detail"}
      [] b = "init_app" ->
            {"stage", "heading", "sub_heading", "technical_detail", "progress"}
      [] b = "success" -> {"stage", "heading", "sub_heading", "progress"}
      [] OTHER -> {"technical_detail", "sub_heading"}
HeadingOf(b) ==
    CASE b \in {"dl_percent", "dl_file"} -> "Synchronizing Assets"
      [] b = "extract" -> "Decompressing Resources"
      [] b = "pip_install" -> "Building Environment"
      [] b = "prereq" -> "System Validation"
      [] b = "device" -> "Hardware Optimization"
      [] b = "init_app" -> "Booting Inference Engine"
      [] b = "load_model" -> "Loading Models"
      [] OTHER -> "Initialization Complete"
LineDone == cur # 0 /\ pending = <<>>
Changed == {f \in DOMAIN status : status[f] # pre[f]}

\* C10: when a line has been handled, the record differs from what it was
\* when the line was classified only by the assignments of the earliest
\* pattern, in the documented order, that matches the line; a line that
\* matches none changes at most technical_detail, to at most 60 characters,
\* and sub_heading, the latter only in stage 1/4; only the success branch
\* ends the tailer.
C10_FirstMatchWins ==
    LineDone =>
        LET b == Earliest(LogLines[cur])
        IN  /\ Changed \subseteq Touched(b)
            /\ b # "fallback" => status.heading.tag = HeadingOf(b)
            /\ b = "fallback" =>
                  /\ "technical_detail" \in Changed =>
                        status.technical_detail.len <= DetailMax
                  /\ "sub_heading" \in Changed => pre.stage = "1/4"
            /\ (tpc = "done") <=> (b = "success")

\* a line matching two patterns has been handled and changed the record
C10_Witness ==
    /\ LineDone /\ Cardinality(LogLines[cur].pats) > 1
    /\ Earliest(LogLines[cur]) = "dl_percent" /\ Changed # {}

CleanSteps == CleanEnter \/ RmtreeOk \/ RmtreeFails \/ CleanSleep \/ ForceRemove

\* the build script as a sequential program: a statement that can run, runs
SpecBuildLive == SpecBuild /\ WF_vars(CleanSteps)

InClean == build.pc \in {"rmtree", "sleep", "rmrf"}
CleanCounts ==
    /\ build.tries <= CleanAttempts /\ build.forced <= 1
    /\ build.pc = "rmtree" =>
          /\ build.tries < CleanAttempts /\ build.sleeps = build.tries
          /\ build.forced = 0
    /\ build.pc = "sleep" =>
          build.sleeps = build.tries - 1 /\ build.forced = 0
    /\ build.pc = "rmrf" =>
          /\ build.tries = CleanAttempts /\ build.sleeps = CleanAttempts
          /\ build.forced = 0
    /\ ~InClean =>
          \/ build.tries = 0 /\ build.sleeps = 0 /\ build.forced = 0
          \/ /\ build.tries \in 1 .. CleanAttempts
             /\ build.sleeps = build.tries - 1 /\ build.forced = 0
          \/ /\ build.tries = CleanAttempts /\ build.sleeps = CleanAttempts
             /\ build.forced = 1
AbsentUntouched ==
    (build.pc = "enter" /\ ~Exists(build, build.target)) =>
        /\ build'.dist = build.dist /\ build'.work = build.work
        /\ build'.plist = build.plist
        /\ build'.tries = 0 /\ build'.sleeps = 0 /\ build'.forced = 0
        /\ build'.pc # "end"

\* C11: clean_dir returns, never ending the script: on an absent path it
\* changes nothing; otherwise rmtree is tried at most three times, the first
\* success returns at once, every failure is followed by one sleep, and
\* rm -rf runs exactly once, after three failures and in no other case.
C11_CleanDirBounded ==
    /\ [](CleanCounts)
    /\ [][AbsentUntouched]_vars
    /\ [][InClean => build'.pc # "end"]_vars
    /\ (build.pc = "enter" /\ build.target = "dist") ~> (build.target = "build")
    /\ (build.pc = "enter" /\ build.target = "build") ~> (build.pc = "package")

\* clean_dir("build") has returned after three failures and rm -rf
C11_Witness ==
    /\ build # <<>>
    /\ build.pc = "package" /\ build.tries = CleanAttempts
    /\ build.sleeps = CleanAttempts /\ build.forced = 1

\* C12 (as claimed): a probe that does not yield 200 is followed by the
\* one-second sleep before anything else the monitor thread does.
C12_SleepAfterEveryOtherProbe ==
    [][(mpc = "probe" /\ mpc' # "probe" /\ mpc' # "log200" /\ alive')
          => mpc' = "sleep"]_vars

Landed ==
    /\ tpc = "done"
    /\ status.stage = "4/4"
    /\ status.heading.tag = "Initialization Complete"
    /\ status.progress = Full
    /\ is_ready
SettledAtFull == tpc # "write" /\ status.stage = "4/4" =>
                    status.progress = Full /\ is_ready
Frozen == status.stage = "4/4" /\ status.progress = Full => status' = status
Returns == tpc = "done" => tpc' = "done" /\ is_ready'

\* C13 (as claimed): a handled line that matches the server-URL or the
\* backend-responsive pattern has set stage 4/4, the heading, progress 100
\* and is_ready and ended the tailer; from then on the record is fixed; and
\* stage 4/4 after a tailer iteration comes with progress 100 and is_ready.
C13_SuccessTerminal ==
    /\ [](LineDone /\ Matches(LogLines[cur], "success") => Landed)
    /\ [](SettledAtFull)
    /\ [][Frozen]_vars
    /\ [][Returns]_vars

\* C13 (amended): the same of a handled line that matches the server-URL or
\* the backend-responsive pattern and none of the eight patterns tested
\* before them.
C13_SuccessBranchTerminal ==
    /\ [](LineDone /\ Earliest(LogLines[cur]) = "success" => Landed)
    /\ [](SettledAtFull)
    /\ [][Frozen]_vars
    /\ [][Returns]_vars

\* the tailer returned on a success line that came after other activity
C13_Witness ==
    /\ Landed /\ cur \in {12, ResponsiveLine}
    /\ pre.stage # "1/4" /\ pre.progress < Full

\* C14 (as claimed): progress is within 0..100.
C14_ProgressInRange == status.progress >= 0 /\ status.progress <= Full

\* the tailer thread runs when it can, and so does the monitor thread
SpecTailLive ==
    /\ SpecTail
    /\ WF_vars(TailOpen \/ TailLine \/ TailWrite)
    /\ WF_vars(MonitorLogs \/ MonitorSetsReady)

\* C15 (as claimed): after wait_for_backend received a 200 the status
\* record eventually shows stage 4/4 with progress 100.
C15_ResponsiveLineArrives ==
    (mpc = "log200") ~> (status.stage = "4/4" /\ status.progress = Full)

====
